---------------------------- MODULE Spec2Model ----------------------------
(***************************************************************************)
(* Model of c3nav's geometry-indexed raster cache                          *)
(* (src/c3nav/mapdata/utils/cache/indexed.py):                             *)
(*   - GeometryIndexed: the dense grid, fit_bounds, get_geometry_cells,    *)
(*     __getitem__, __setitem__, and the binary codec read / write;        *)
(*   - LevelGeometryIndexed.open_level_cached: the per-class process cache *)
(*     guarded by cache_lock and invalidated by the map-update cache key.  *)
(* The specifications share the variables: SpecGrid (grid operations),     *)
(* SpecRaster (rasterisation and reads on and off the cell boundaries),    *)
(* SpecOrder (two writes in either order), SpecCodec (write / read of the  *)
(* byte stream), SpecSave (save / open of files), SpecAtomic (a save step  *)
(* by step beside a load), SpecNames (level_filename), SpecCache           *)
(* (concurrent open_level_cached calls), SpecProgress (the same under fair *)
(* scheduling) and SpecVariants (the cache across two subclasses).         *)
(***************************************************************************)
EXTENDS Integers, Sequences, FiniteSets, TLC

VARIABLES
    grid,      \* the GeometryIndexed instance: resolution, x, y, data (h x w)
    prev,      \* history: the instance before the last mutating operation
    lastOp,    \* history: the last mutating operation and its arguments
    nops,      \* number of mutating operations performed so far
    ret,       \* the last call that only reads: arguments, result or error
    stream,    \* the byte stream f: its bytes, the read position, who wrote it
    loaded,    \* the last GeometryIndexed.read call: instance or error
    filename,  \* self.filename of the instance: a path, or NoFilename for None
    disk,      \* the file system: per path, whether a file exists and its bytes
    saved,     \* the last save or open call: arguments, target and error
    token,     \* MapUpdate.current_processed_cache_key(), the external epoch
    files,     \* per class and (level_id, mode): version of the level file
    ckey,      \* per class: its own cache_key attribute, or Inherit
    ccached,   \* per class: its own cached dict, or Inherit
    baseCached,\* LevelGeometryIndexed.cached, the dict the subclasses inherit
    lock,      \* cache_lock: the thread holding it, or NoThread
    pc,        \* per thread: position inside open_level_cached, or how it ended
    call,      \* per thread: cls, key, local cache_key and result of its call
    nloads,    \* number of open_level invocations so far (object identity)
    hist       \* history of the cache: when each class adopted its key, the
               \* successful loads, the first grid returned under the token

gridVars  == <<grid, prev, lastOp, nops, ret>>
fileVars  == <<filename, disk, saved>>
codecVars == <<stream, loaded, filename, disk, saved>>
cacheVars == <<token, files, ckey, ccached, baseCached, lock, pc, call, nloads, hist>>
vars == <<grid, prev, lastOp, nops, ret, stream, loaded, filename, disk, saved,
          token, files, ckey, ccached, baseCached, lock, pc, call, nloads, hist>>

-----------------------------------------------------------------------------
(* Bounds of the model and program constants                               *)

\* settings.CACHE_RESOLUTION, the default resolution of a new instance
CACHE_RESOLUTION == 4
\* at most this many mutating operations (fit_bounds, __setitem__) per run
MaxOps == 2
\* world-coordinate intervals <<lo, hi>> of the geometries written: a span
\* on cell boundaries, one off them with a negative end, and a single point
Spans == {<<0, 8>>, <<-3, 0>>, <<4, 4>>}
\* cell-coordinate intervals <<min, max>> requested from fit_bounds: the last
\* one is inverted
FitSpans == {<<0, 2>>, <<-1, 1>>, <<2, 0>>}
\* world-coordinate slices start:stop read with grid[x0:x1, y0:y1]
ReadSpans == {<<0, 4>>, <<8, 12>>, <<-3, 8>>}
\* cell values written
Values == {1, 2}
\* resolutions an instance is constructed with
Resolutions == {3, CACHE_RESOLUTION}

Min(a, b) == IF a <= b THEN a ELSE b
Max(a, b) == IF a >= b THEN a ELSE b
\* math.floor(a / r) and math.ceil(a / r) for an integer a and r > 0
FloorDiv(a, r) == a \div r
\* (mutant) the ceiling taken as the floor plus one
CeilDivFloorPlusOne(a, r) == (a \div r) + 1
CeilDiv(a, r) == -((-a) \div r)

-----------------------------------------------------------------------------
(* GeometryIndexed: the instance                                           *)

\* np.empty((0, 0)) / np.zeros((h, w)): rows 0..h-1, columns 0..w-1
ZeroData(h, w) == [r \in 0..(h - 1) |-> [c \in 0..(w - 1) |-> 0]]

\* GeometryIndexed(resolution): x = 0, y = 0, data of shape (0, 0)
NewGrid(res) ==
    [resolution |-> res, x |-> 0, y |-> 0, h |-> 0, w |-> 0, data |-> ZeroData(0, 0)]

\* self.data.size
DataSize(g) == g.h * g.w

\* the bounds property: (x, y, x + width, y + height)
Bounds(g) == <<g.x, g.y, g.x + g.w, g.y + g.h>>

-----------------------------------------------------------------------------
(* Keys and geometries.  A shapely geometry is modelled by what the code    *)
(* uses of it: its bounds and whether it intersects a closed box.  It is a  *)
(* finite union of closed axis-aligned parts [x0, x1] x [y0, y1] (a point,  *)
(* a segment or a box each).                                                *)

Part(x0, y0, x1, y1) == [x0 |-> x0, y0 |-> y0, x1 |-> x1, y1 |-> y1]
GeomKey(parts) == [kind |-> "geom", parts |-> parts]
\* a tuple of two slices, grid[x0:x1, y0:y1]
RectKey(x0, x1, y0, y1) == [kind |-> "rect", x0 |-> x0, x1 |-> x1, y0 |-> y0, y1 |-> y1]
\* any other object
OtherKey == [kind |-> "other"]

\* the empty geometry (geometry.is_empty): no part
EmptyGeometry == {}

SetMin(S) == CHOOSE a \in S : \A b \in S : a <= b
SetMax(S) == CHOOSE a \in S : \A b \in S : a >= b

\* geometry.bounds: (minx, miny, maxx, maxy) of a non-empty geometry
GeomBounds(parts) ==
    <<SetMin({p.x0 : p \in parts}), SetMin({p.y0 : p \in parts}),
      SetMax({p.x1 : p \in parts}), SetMax({p.y1 : p \in parts})>>

\* prep.intersects(box(x, y, x + res, y + res)): closed sets, touching counts
Intersects(parts, x, y, res) ==
    \E p \in parts : p.x0 <= x + res /\ p.x1 >= x /\ p.y0 <= y + res /\ p.y1 >= y

\* _get_geometry_bounds: floor of the minima, ceil of the maxima, in cells
GetGeometryBounds(g, parts) ==
    LET b == GeomBounds(parts)
    IN  <<FloorDiv(b[1], g.resolution), FloorDiv(b[2], g.resolution),
          CeilDiv(b[3], g.resolution), CeilDiv(b[4], g.resolution)>>

-----------------------------------------------------------------------------
(* fit_bounds                                                              *)

\* (mutant) the request always joined with the current extent
FitExtentAlwaysJoin(g, minx, miny, maxx, maxy) ==
    <<Min(g.x, minx), Min(g.y, miny), Max(g.x + g.w, maxx), Max(g.y + g.h, maxy)>>

\* (mutant) the request taken as it is, the current extent forgotten
FitExtentRequestOnly(g, minx, miny, maxx, maxy) == <<minx, miny, maxx, maxy>>

\* the new (minx, miny, maxx, maxy): the request, joined with the current
\* extent only when the instance holds cells (if self.data.size)
FitExtent(g, minx, miny, maxx, maxy) ==
    IF DataSize(g) # 0
    THEN <<Min(g.x, minx), Min(g.y, miny), Max(g.x + g.w, maxx), Max(g.y + g.h, maxy)>>
    ELSE <<minx, miny, maxx, maxy>>

\* (mutant) the old data copied at offset (0, 0)
FitDataNoOffset(g, e) ==
    [r \in 0..(e[4] - e[2] - 1) |-> [c \in 0..(e[3] - e[1] - 1) |->
        IF DataSize(g) # 0 /\ r \in 0..(g.h - 1) /\ c \in 0..(g.w - 1)
        THEN g.data[r][c]
        ELSE 0]]

\* new_data: zeros, with the old data copied at offset (dy, dx)
FitData(g, e) ==
    LET dx == g.x - e[1]
        dy == g.y - e[2]
    IN  [r \in 0..(e[4] - e[2] - 1) |-> [c \in 0..(e[3] - e[1] - 1) |->
            IF /\ DataSize(g) # 0
               /\ r - dy \in 0..(g.h - 1)
               /\ c - dx \in 0..(g.w - 1)
            THEN g.data[r - dy][c - dx]
            ELSE 0]]

\* fit_bounds(minx, miny, maxx, maxy); np.zeros raises ValueError on a
\* negative dimension, before anything is assigned
FitBoundsF(g, minx, miny, maxx, maxy) ==
    LET e == FitExtent(g, minx, miny, maxx, maxy)
    IN  IF e[4] - e[2] < 0 \/ e[3] - e[1] < 0
        THEN [err |-> "ValueError", grid |-> g]
        ELSE [err |-> "",
              grid |-> [g EXCEPT !.x = e[1], !.y = e[2],
                                 !.h = e[4] - e[2], !.w = e[3] - e[1],
                                 !.data = FitData(g, e)]]

-----------------------------------------------------------------------------
(* get_geometry_cells, __getitem__, __setitem__                            *)

\* (mutant) every cell of the array tested, not only those of the bounds
GetGeometryCellsWholeArray(g, parts, bounds) ==
    { q \in (0..(g.h - 1)) \X (0..(g.w - 1)) :
        Intersects(parts, (q[2] + g.x) * g.resolution, (q[1] + g.y) * g.resolution,
                   g.resolution) }

\* (mutant) the bounds used as they are, not clamped to the array
GetGeometryCellsUnclamped(g, parts, bounds) ==
    { <<q[1] - g.y, q[2] - g.x>> : q \in
        { q \in (bounds[2]..(bounds[4] - 1)) \X (bounds[1]..(bounds[3] - 1)) :
            Intersects(parts, q[2] * g.resolution, q[1] * g.resolution, g.resolution) } }

\* the boolean mask, as the set of (row, column) indices that are True
GetGeometryCells(g, parts, bounds) ==
    LET minx == Max(bounds[1], g.x)
        miny == Max(bounds[2], g.y)
        maxx == Min(bounds[3], g.x + g.w)
        maxy == Min(bounds[4], g.y + g.h)
        res  == g.resolution
    IN  { <<q[1] - g.y, q[2] - g.x>> : q \in
            { q \in (miny..(maxy - 1)) \X (minx..(maxx - 1)) :
                Intersects(parts, q[2] * res, q[1] * res, res) } }

\* get_geometry_cells(geometry) with bounds=None: the bounds come from
\* _get_geometry_bounds, whose unpacking of geometry.bounds raises ValueError
\* for an empty geometry (no bounds to unpack, or NaN bounds to floor)
GetGeometryCellsF(g, parts) ==
    IF parts = EmptyGeometry THEN [err |-> "ValueError", cells |-> {}]
    ELSE [err |-> "", cells |-> GetGeometryCells(g, parts, GetGeometryBounds(g, parts))]

\* the values at the flat (row-major) indices below n of an array of width
\* w whose (row, column) is in keep, in increasing order of the index
RECURSIVE FlatSelect(_, _, _, _)
FlatSelect(data, w, n, keep) ==
    IF n = 0 THEN <<>>
    ELSE LET r == (n - 1) \div w
             c == (n - 1) % w
             rest == FlatSelect(data, w, n - 1, keep)
         IN  IF <<r, c>> \in keep THEN Append(rest, data[r][c]) ELSE rest

\* self.data[mask]: the values of the True cells in row-major order
MaskedValues(g, cells) ==
    IF g.w = 0 THEN <<>> ELSE FlatSelect(g.data, g.w, g.h * g.w, cells)

\* (mutant) the column limits of the slice ignored
SliceValuesWholeRows(g, miny, maxy, minx, maxx) ==
    MaskedValues(g, (miny..(Min(maxy, g.h) - 1)) \X (0..(g.w - 1)))

\* self.data[miny:maxy, minx:maxx].ravel() for non-negative slice limits
SliceValues(g, miny, maxy, minx, maxx) ==
    MaskedValues(g, (miny..(Min(maxy, g.h) - 1)) \X (minx..(Min(maxx, g.w) - 1)))

\* __getitem__(key): a rectangle (tuple of slices), a geometry, or TypeError
GetItemF(g, key) ==
    IF key.kind = "rect"
    THEN LET minx == Max(0, FloorDiv(key.x0, g.resolution) - g.x)
             miny == Max(0, FloorDiv(key.y0, g.resolution) - g.y)
             maxx == Max(0, CeilDiv(key.x1, g.resolution) - g.x)
             maxy == Max(0, CeilDiv(key.y1, g.resolution) - g.y)
         IN  [err |-> "", values |-> SliceValues(g, miny, maxy, minx, maxx)]
    ELSE IF key.kind = "geom"
    THEN IF key.parts = EmptyGeometry THEN [err |-> "ValueError", values |-> <<>>]
         ELSE LET bounds == GetGeometryBounds(g, key.parts)
              IN  [err |-> "",
                   values |-> MaskedValues(g, GetGeometryCells(g, key.parts, bounds))]
    ELSE [err |-> "TypeError", values |-> <<>>]

\* (mutant) a read with a geometry fits the grid to the geometry first
ReadEffectFit(g, key) ==
    IF key.kind = "geom" /\ key.parts # EmptyGeometry
    THEN LET b == GetGeometryBounds(g, key.parts)
         IN  FitBoundsF(g, b[1], b[2], b[3], b[4]).grid
    ELSE g

\* the instance after __getitem__(key), get_geometry_cells(key) or bounds:
\* none of them assigns to a field of self or to a cell of self.data (the
\* mask of get_geometry_cells is a new array)
ReadEffect(g, key) == g

\* (mutant) the value added to the selected cells
AssignCellsAdd(g, cells, value) ==
    [g EXCEPT !.data = [r \in 0..(g.h - 1) |-> [c \in 0..(g.w - 1) |->
                          IF <<r, c>> \in cells THEN g.data[r][c] + value
                          ELSE g.data[r][c]]]]

\* (mutant) the value assigned to every cell of the array
AssignCellsEverywhere(g, cells, value) ==
    [g EXCEPT !.data = [r \in 0..(g.h - 1) |-> [c \in 0..(g.w - 1) |-> value]]]

\* self.data[cells] = value
AssignCells(g, cells, value) ==
    [g EXCEPT !.data = [r \in 0..(g.h - 1) |-> [c \in 0..(g.w - 1) |->
                          IF <<r, c>> \in cells THEN value ELSE g.data[r][c]]]]

\* (mutant) a rectangle tuple accepted and written as a box
SetItemFRectangles(g, key, value) ==
    IF key.kind = "other" \/ (key.kind = "geom" /\ key.parts = EmptyGeometry)
    THEN [err |-> IF key.kind = "other" THEN "TypeError" ELSE "ValueError", grid |-> g]
    ELSE LET parts == IF key.kind = "geom" THEN key.parts
                      ELSE {Part(key.x0, key.y0, key.x1, key.y1)}
             bounds == GetGeometryBounds(g, parts)
             fit == FitBoundsF(g, bounds[1], bounds[2], bounds[3], bounds[4])
         IN  IF fit.err # "" THEN fit
             ELSE [err |-> "",
                   grid |-> AssignCells(fit.grid,
                                GetGeometryCells(fit.grid, parts, bounds), value)]

\* __setitem__(key, value): only a geometry; fit_bounds to its cell bounds,
\* then assign the selected cells
SetItemF(g, key, value) ==
    IF key.kind = "geom" /\ key.parts = EmptyGeometry
    THEN [err |-> "ValueError", grid |-> g]
    ELSE IF key.kind = "geom"
    THEN LET bounds == GetGeometryBounds(g, key.parts)
             fit == FitBoundsF(g, bounds[1], bounds[2], bounds[3], bounds[4])
         IN  IF fit.err # "" THEN fit
             ELSE [err |-> "",
                   grid |-> AssignCells(fit.grid,
                                GetGeometryCells(fit.grid, key.parts, bounds), value)]
    ELSE [err |-> "TypeError", grid |-> g]

-----------------------------------------------------------------------------
(* The binary codec: struct '<BBhhHH', then the cells as uint16            *)

\* GeometryIndexed.variant_id, and the id of a subclass that overrides it
VariantIds == {0, 1}

\* a uint16 / int16 as two little-endian bytes
U16LE(v) == <<v % 256, v \div 256>>
I16LE(v) == U16LE(IF v < 0 THEN v + 65536 ELSE v)
\* two little-endian bytes as a uint16 / int16
U16Of(lo, hi) == lo + 256 * hi
\* (mutant) the origin unpacked as unsigned ('H' for 'h')
I16OfUnsigned(lo, hi) == U16Of(lo, hi)
I16Of(lo, hi) == IF U16Of(lo, hi) >= 32768 THEN U16Of(lo, hi) - 65536 ELSE U16Of(lo, hi)

\* struct.pack raises struct.error when a field is out of its format's range
PackOk(variant, g) ==
    /\ variant \in 0..255 /\ g.resolution \in 0..255
    /\ g.x \in -32768..32767 /\ g.y \in -32768..32767
    /\ g.w \in 0..65535 /\ g.h \in 0..65535

\* (mutant) the shape packed as it is, height before width
PackHeaderShapeOrder(variant, g) ==
    <<variant, g.resolution>> \o I16LE(g.x) \o I16LE(g.y) \o U16LE(g.h) \o U16LE(g.w)

\* struct.pack('<BBhhHH', variant_id, resolution, x, y, *reversed(shape))
PackHeader(variant, g) ==
    <<variant, g.resolution>> \o I16LE(g.x) \o I16LE(g.y) \o U16LE(g.w) \o U16LE(g.h)

\* self.data.tobytes('C'): the first n cells in row-major order
RECURSIVE DataBytes(_, _, _)
DataBytes(data, w, n) ==
    IF n = 0 THEN <<>>
    ELSE DataBytes(data, w, n - 1) \o U16LE(data[(n - 1) \div w][(n - 1) % w])

\* write(f): the bytes written to f, or struct.error
WriteF(variant, g) ==
    IF ~PackOk(variant, g) THEN [err |-> "struct.error", bytes |-> <<>>]
    ELSE [err |-> "",
          bytes |-> PackHeader(variant, g)
                    \o (IF g.w = 0 THEN <<>> ELSE DataBytes(g.data, g.w, g.h * g.w))]

\* f.read(n) at position pos: at most n bytes, fewer at the end of the stream
ReadBytes(bytes, pos, n) == SubSeq(bytes, pos + 1, Min(pos + n, Len(bytes)))

\* np.fromstring(payload, uint16).reshape((height, width))
ReshapeData(payload, height, width) ==
    [r \in 0..(height - 1) |-> [c \in 0..(width - 1) |->
        U16Of(payload[2 * (r * width + c) + 1], payload[2 * (r * width + c) + 2])]]

\* the header fields unpacked from ten bytes
UnpackHeader(hd) ==
    [variant_id |-> hd[1], resolution |-> hd[2],
     x |-> I16Of(hd[3], hd[4]), y |-> I16Of(hd[5], hd[6]),
     width |-> U16Of(hd[7], hd[8]), height |-> U16Of(hd[9], hd[10])]

NoGrid == [none |-> TRUE]

\* (mutant) the variant id compared only after the payload has been read
ReadFLateCheck(variant, bytes, pos) ==
    LET hd == ReadBytes(bytes, pos, 10)
        pos1 == pos + Len(hd)
    IN  IF Len(hd) < 10
        THEN [err |-> "struct.error", grid |-> NoGrid, pos |-> pos1]
        ELSE LET f == UnpackHeader(hd)
                 payload == ReadBytes(bytes, pos1, f.width * f.height * 2)
                 pos2 == pos1 + Len(payload)
             IN  IF f.variant_id # variant \/ Len(payload) # f.width * f.height * 2
                 THEN [err |-> "ValueError", grid |-> NoGrid, pos |-> pos2]
                 ELSE [err |-> "",
                       grid |-> [resolution |-> f.resolution, x |-> f.x, y |-> f.y,
                                 h |-> f.height, w |-> f.width,
                                 data |-> ReshapeData(payload, f.height, f.width)],
                       pos |-> pos2]

\* cls.read(f) for the class with variant_id variant, f at position pos:
\* the error or the new instance, and the position f is left at
ReadF(variant, bytes, pos) ==
    LET hd == ReadBytes(bytes, pos, 10)
        pos1 == pos + Len(hd)
    IN  IF Len(hd) < 10
        THEN [err |-> "struct.error", grid |-> NoGrid, pos |-> pos1]
        ELSE LET f == UnpackHeader(hd)
                 payload == ReadBytes(bytes, pos1, f.width * f.height * 2)
                 pos2 == pos1 + Len(payload)
             IN  IF f.variant_id # variant
                 THEN [err |-> "ValueError", grid |-> NoGrid, pos |-> pos1]
                 ELSE IF Len(payload) # f.width * f.height * 2
                 THEN [err |-> "ValueError", grid |-> NoGrid, pos |-> pos2]
                 ELSE [err |-> "",
                       grid |-> [resolution |-> f.resolution, x |-> f.x, y |-> f.y,
                                 h |-> f.height, w |-> f.width,
                                 data |-> ReshapeData(payload, f.height, f.width)],
                       pos |-> pos2]


-----------------------------------------------------------------------------
(* Inputs                                                                  *)

\* geometries of one part (boxes, segments, points) and one of two points
Geometries ==
    { {Part(sx[1], sy[1], sx[2], sy[2])} : <<sx, sy>> \in Spans \X Spans }
    \cup { {Part(-3, -3, -3, -3), Part(8, 8, 8, 8)} }
\* keys passed to __setitem__: geometries, a rectangle tuple, another object
WriteKeys == { GeomKey(p) : p \in Geometries } \cup {RectKey(0, 8, 0, 8), OtherKey}
\* keys passed to __getitem__
ReadKeys ==
    { RectKey(sx[1], sx[2], sy[1], sy[2]) : <<sx, sy>> \in ReadSpans \X ReadSpans }
    \cup { GeomKey(p) : p \in { {Part(0, 0, 8, 8)}, {Part(-3, -3, 0, 0)},
                                {Part(-3, -3, -3, -3), Part(8, 8, 8, 8)} } }
    \cup {OtherKey}
\* (minx, miny, maxx, maxy) passed to fit_bounds
FitRequests == { <<sx[1], sy[1], sx[2], sy[2]>> : <<sx, sy>> \in FitSpans \X FitSpans }
\* the smaller input sets of the codec specification
CodecKeys == { GeomKey({Part(0, 0, 8, 8)}), GeomKey({Part(-3, -3, 0, 0)}),
               GeomKey({Part(4, 4, 4, 4)}), GeomKey({Part(-3, 0, 4, 0)}) }
CodecRequests == { <<-1, 0, 1, 2>>, <<0, 0, 0, 2>> }
\* lengths a partially written file is cut to
CutLengths == {0, 1, 9, 10, 11}

\* the inputs of the rasterisation specification: a box on the cell
\* boundaries of resolution 4 and one on those of resolution 3, a point on a
\* cell corner of each, a segment along a cell boundary of resolution 4, and
\* the empty geometry
RasterGeometries ==
    { {Part(0, 0, 8, 8)}, {Part(-3, -3, 0, 0)}, {Part(4, 4, 4, 4)},
      {Part(-3, -3, -3, -3)}, {Part(0, 4, 8, 4)}, EmptyGeometry }
RasterKeys == { GeomKey(p) : p \in RasterGeometries }
\* requests of fit_bounds: around the boxes, inside them, and without cells
RasterRequests == { <<-1, -1, 3, 3>>, <<0, 0, 1, 1>>, <<1, 1, 1, 1>> }
\* slices read: inside, across, left of / below and right of / above the boxes
RasterReadSpans == {<<0, 4>>, <<-3, 8>>, <<-8, -5>>, <<13, 16>>}
RasterReadKeys ==
    { RectKey(sx[1], sx[2], sy[1], sy[2]) : <<sx, sy>> \in RasterReadSpans \X RasterReadSpans }
    \cup RasterKeys

NoOp == [op |-> "none"]
NoStream == [bytes |-> <<>>, pos |-> 0, variant |-> 0, src |-> NoGrid,
             written |-> FALSE, cut |-> FALSE]

-----------------------------------------------------------------------------
(* Actions on one instance                                                 *)

\* grid.fit_bounds(*req)
FitBounds(requests) ==
    \E req \in requests :
        LET r == FitBoundsF(grid, req[1], req[2], req[3], req[4])
        IN  /\ nops < MaxOps
            /\ grid' = r.grid
            /\ prev' = grid
            /\ lastOp' = [op |-> "fit_bounds", req |-> req, err |-> r.err]
            /\ nops' = nops + 1
            /\ ret' = NoOp
            /\ UNCHANGED <<codecVars, cacheVars>>

\* grid[key] = value
SetItem(keys) ==
    \E key \in keys, value \in Values :
        LET r == SetItemF(grid, key, value)
        IN  /\ nops < MaxOps
            /\ grid' = r.grid
            /\ prev' = grid
            /\ lastOp' = [op |-> "setitem", key |-> key, value |-> value, err |-> r.err,
                          again |-> /\ lastOp.op = "setitem"
                                    /\ lastOp.key = key /\ lastOp.value = value]
            /\ nops' = nops + 1
            /\ ret' = NoOp
            /\ UNCHANGED <<codecVars, cacheVars>>

\* grid[key] for a key of keys
GetItemOf(keys) ==
    \E key \in keys :
        LET r == GetItemF(grid, key)
        IN  /\ ret' = [op |-> "getitem", key |-> key, err |-> r.err, values |-> r.values]
            /\ grid' = ReadEffect(grid, key)
            /\ UNCHANGED <<prev, lastOp, nops, codecVars, cacheVars>>

\* grid[key]
GetItem == GetItemOf(ReadKeys)

\* grid.get_geometry_cells(geometry)
GetCells(geometries) ==
    \E parts \in geometries :
        LET r == GetGeometryCellsF(grid, parts)
        IN  /\ ret' = [op |-> "cells", key |-> GeomKey(parts), err |-> r.err,
                       cells |-> r.cells]
            /\ grid' = ReadEffect(grid, GeomKey(parts))
            /\ UNCHANGED <<prev, lastOp, nops, codecVars, cacheVars>>

\* grid.bounds
GetBounds ==
    /\ ret' = [op |-> "bounds", key |-> OtherKey, err |-> "", value |-> Bounds(grid)]
    /\ grid' = ReadEffect(grid, OtherKey)
    /\ UNCHANGED <<prev, lastOp, nops, codecVars, cacheVars>>

\* grid.write(f) on a fresh stream f, by an instance of the class with
\* variant_id variant
Write ==
    \E variant \in VariantIds :
        LET r == WriteF(variant, grid)
        IN  /\ stream' = [bytes |-> r.bytes, pos |-> 0, variant |-> variant,
                          src |-> grid, written |-> r.err = "", cut |-> FALSE]
            /\ loaded' = NoOp
            /\ UNCHANGED <<gridVars, fileVars, cacheVars>>

\* the stream is a file of which only the first n bytes have been written
Truncate ==
    \E n \in CutLengths :
        /\ stream.written /\ stream.pos = 0 /\ n < Len(stream.bytes)
        /\ stream' = [stream EXCEPT !.bytes = SubSeq(stream.bytes, 1, n), !.cut = TRUE]
        /\ loaded' = NoOp
        /\ UNCHANGED <<gridVars, fileVars, cacheVars>>

\* cls.read(f) by the class with variant_id variant
Read ==
    \E variant \in VariantIds :
        LET r == ReadF(variant, stream.bytes, stream.pos)
        IN  /\ stream.written
            /\ loaded' = [op |-> "read", variant |-> variant, from |-> stream.pos,
                          err |-> r.err, grid |-> r.grid]
            /\ stream' = [stream EXCEPT !.pos = r.pos]
            /\ UNCHANGED <<gridVars, fileVars, cacheVars>>

-----------------------------------------------------------------------------
(* two writes in either order                                              *)

\* the geometries written: two boxes, a point on a cell corner of each
\* resolution and a segment along a cell boundary
OrderKeys ==
    { GeomKey(p) : p \in { {Part(0, 0, 8, 8)}, {Part(-3, -3, 0, 0)}, {Part(4, 4, 4, 4)},
                           {Part(-3, -3, -3, -3)}, {Part(0, 4, 8, 4)} } }

\* g[k1] = v1; g[k2] = v2 on a copy of the instance g
SetItemTwice(g, k1, v1, k2, v2) ==
    LET a == SetItemF(g, k1, v1)
    IN  IF a.err # "" THEN a ELSE SetItemF(a.grid, k2, v2)

\* grid[k1] = v1; grid[k2] = v2 on one copy of the instance and
\* grid[k2] = v2; grid[k1] = v1 on another
WritePair(keys) ==
    \E k1 \in keys, k2 \in keys, v1 \in Values, v2 \in Values :
        LET ab == SetItemTwice(grid, k1, v1, k2, v2)
            ba == SetItemTwice(grid, k2, v2, k1, v1)
        IN  /\ ret' = [op |-> "pair", k1 |-> k1, v1 |-> v1, k2 |-> k2, v2 |-> v2,
                       err |-> IF ab.err # "" THEN ab.err ELSE ba.err,
                       ab |-> ab.grid, ba |-> ba.grid]
            /\ UNCHANGED <<grid, prev, lastOp, nops, codecVars, cacheVars>>

-----------------------------------------------------------------------------
(* save and open: the instance's filename and the files                    *)

\* the paths files are saved to and opened from
Paths == {"p1", "p2"}
\* filename=None
NoFilename == "None"
\* a path without a file, and a file holding bytes
NoFile == [exists |-> FALSE, bytes |-> <<>>]
FileOf(bytes) == [exists |-> TRUE, bytes |-> bytes]
\* at most this many save and open calls per run
MaxFileOps == 3
\* no save or open call yet
NoCall == [op |-> "none", n |-> 0]

\* (mutant) only the explicit argument used as the destination
SaveTargetExplicitOnly(arg, fname) == arg
\* save(filename): the explicit argument, else self.filename
SaveTarget(arg, fname) == IF arg = NoFilename THEN fname ELSE arg

\* save(filename=arg) of instance g with self.filename fname: ValueError
\* without a destination; else open(target, 'wb') creates or empties the
\* file and write(f) fills it, or raises struct.error before its first byte
SaveF(g, fname, arg, d) ==
    LET target == SaveTarget(arg, fname)
        w == WriteF(0, g)
    IN  IF target = NoFilename
        THEN [err |-> "ValueError", target |-> target, disk |-> d]
        ELSE [err |-> w.err, target |-> target,
              disk |-> [d EXCEPT ![target] = FileOf(w.bytes)]]

\* cls.open(path): IOError without the file, the error of read, or the
\* instance read from the file with its filename set to path
OpenF(path, d) ==
    IF ~d[path].exists THEN [err |-> "IOError", grid |-> NoGrid]
    ELSE LET r == ReadF(0, d[path].bytes, 0)
         IN  [err |-> r.err, grid |-> r.grid]

\* grid.save(arg)
Save ==
    \E arg \in Paths \cup {NoFilename} :
        LET r == SaveF(grid, filename, arg, disk)
        IN  /\ saved.n < MaxFileOps
            /\ disk' = r.disk
            /\ saved' = [op |-> "save", arg |-> arg, fname |-> filename,
                         target |-> r.target, err |-> r.err, nops |-> nops,
                         n |-> saved.n + 1]
            /\ UNCHANGED <<gridVars, stream, loaded, filename, cacheVars>>

\* grid = cls.open(path)
Open ==
    \E path \in Paths :
        LET r == OpenF(path, disk)
        IN  /\ saved.n < MaxFileOps
            /\ saved' = [op |-> "open", arg |-> path, err |-> r.err, n |-> saved.n + 1]
            /\ IF r.err = ""
               THEN /\ grid' = r.grid
                    /\ prev' = grid
                    /\ lastOp' = [op |-> "open", path |-> path, err |-> ""]
                    /\ ret' = NoOp
                    /\ filename' = path
               ELSE UNCHANGED <<grid, prev, lastOp, ret, filename>>
            /\ UNCHANGED <<nops, stream, loaded, disk, cacheVars>>

-----------------------------------------------------------------------------
(* save and open step by step: a writer thread saves while a reader thread *)
(* opens, with no lock and no atomic replace between them                  *)

\* geometries the writer sets between its saves
AtomicKeys == { GeomKey({Part(0, 0, 8, 8)}), GeomKey({Part(0, 0, 4, 4)}) }

\* no save yet; last: per path, the grid of the last completed save
NoSave == [op |-> "none", n |-> 0, last |-> [p \in Paths |-> NoGrid]]

\* a save of path is between its open(filename, 'wb') and its close
Saving(path) == saved.op = "saving" /\ saved.target = path

\* the file holds less than the encoding the save in progress is writing
Partial(path) == Saving(path) /\ Len(disk[path].bytes) < Len(saved.enc.bytes)

\* the reader's record after a step of a save of path: a load of path that
\* is in progress overlaps the save
Overlapped(path) ==
    IF loaded.op = "opening" /\ loaded.path = path
    THEN [loaded EXCEPT !.overlap = TRUE]
    ELSE loaded

\* (mutant) only the header reaches the file
AtCloseHeaderOnly(bytes) == SubSeq(bytes, 1, 10)
\* the file once the with block of save is left: close flushes all that was
\* written
AtClose(bytes) == bytes

\* the writer mutates its instance between two saves
AtomicSetItem == saved.op # "saving" /\ SetItem(AtomicKeys)

\* line 70: open(filename, 'wb') creates or truncates the file
SaveOpen ==
    \E path \in Paths :
        /\ saved.op # "saving"
        /\ saved.n < MaxFileOps
        /\ disk' = [disk EXCEPT ![path] = FileOf(<<>>)]
        /\ saved' = [op |-> "saving", stage |-> "opened", target |-> path,
                     enc |-> WriteF(0, grid), src |-> grid, n |-> saved.n + 1,
                     last |-> saved.last]
        /\ loaded' = Overlapped(path)
        /\ UNCHANGED <<gridVars, stream, filename, cacheVars>>

\* line 74: f.write(struct.pack(...)); the header reaches the file now or
\* stays in the buffer of f; a struct.error ends the save, the file is empty
SaveWriteHeader ==
    /\ saved.op = "saving" /\ saved.stage = "opened"
    /\ IF saved.enc.err # ""
       THEN /\ saved' = [op |-> "save", target |-> saved.target, err |-> saved.enc.err,
                         n |-> saved.n,
                         last |-> [saved.last EXCEPT ![saved.target] = NoGrid]]
            /\ UNCHANGED disk
       ELSE /\ saved' = [saved EXCEPT !.stage = "header"]
            /\ \E visible \in {disk[saved.target].bytes, SubSeq(saved.enc.bytes, 1, 10)} :
                   disk' = [disk EXCEPT ![saved.target] = FileOf(visible)]
    /\ loaded' = Overlapped(saved.target)
    /\ UNCHANGED <<gridVars, stream, filename, cacheVars>>

\* line 76: f.write(self.data.tobytes('C')); what has been written reaches
\* the file now, in part or in whole, or stays in the buffer of f
SaveWritePayload ==
    /\ saved.op = "saving" /\ saved.stage = "header"
    /\ saved' = [saved EXCEPT !.stage = "payload"]
    /\ \E visible \in {disk[saved.target].bytes, SubSeq(saved.enc.bytes, 1, 10),
                       saved.enc.bytes} :
           disk' = [disk EXCEPT ![saved.target] = FileOf(visible)]
    /\ loaded' = Overlapped(saved.target)
    /\ UNCHANGED <<gridVars, stream, filename, cacheVars>>

\* lines 70-71: the with block is left, f is closed
SaveClose ==
    /\ saved.op = "saving" /\ saved.stage = "payload"
    /\ disk' = [disk EXCEPT ![saved.target] = FileOf(AtClose(saved.enc.bytes))]
    /\ saved' = [op |-> "save", target |-> saved.target, err |-> "", n |-> saved.n,
                 last |-> [saved.last EXCEPT ![saved.target] = saved.src]]
    /\ loaded' = Overlapped(saved.target)
    /\ UNCHANGED <<gridVars, stream, filename, cacheVars>>

\* lines 38 and 45: open(filename, 'rb') and f.read(10) by the reader; f
\* may have buffered more of the file than the 10 bytes (snapshot)
LoadOpen ==
    \E path \in Paths :
        /\ loaded.op # "opening"
        /\ loaded' =
             IF disk[path].exists
             THEN [op |-> "opening", path |-> path, snapshot |-> disk[path].bytes,
                   overlap |-> Saving(path), partial |-> Partial(path),
                   expect |-> saved.last[path]]
             ELSE [op |-> "open", path |-> path, err |-> "FileNotFoundError",
                   grid |-> NoGrid, overlap |-> Saving(path), partial |-> FALSE,
                   expect |-> saved.last[path]]
        /\ UNCHANGED <<gridVars, stream, fileVars, cacheVars>>

\* lines 45-58: the header is unpacked and the cells are read, from the
\* buffer of f or from the file as it is now
LoadRead ==
    /\ loaded.op = "opening"
    /\ \E rest \in {loaded.snapshot, disk[loaded.path].bytes} :
          LET seen == SubSeq(loaded.snapshot, 1, Min(10, Len(loaded.snapshot)))
                      \o SubSeq(rest, 11, Len(rest))
              r == ReadF(0, seen, 0)
          IN  loaded' = [op |-> "open", path |-> loaded.path, err |-> r.err,
                         grid |-> r.grid, overlap |-> loaded.overlap,
                         partial |-> loaded.partial \/ Partial(loaded.path),
                         expect |-> loaded.expect]
    /\ UNCHANGED <<gridVars, stream, fileVars, cacheVars>>

-----------------------------------------------------------------------------
(* LevelGeometryIndexed.level_filename: the name of a level's file.        *)
(* A str is the sequence of its characters.                                *)

\* settings.CACHE_ROOT, a directory
CACHE_ROOT == <<"/", "c">>
\* variant_name = None, the class attribute of LevelGeometryIndexed itself
NoneName == <<"None">>

\* '%s' % s: a str is copied, None is formatted as 'None'
FormatS(s) == IF s = NoneName THEN <<"N", "o", "n", "e">> ELSE s

DigitChar(d) ==
    CASE d = 0 -> "0" [] d = 1 -> "1" [] d = 2 -> "2" [] d = 3 -> "3" [] d = 4 -> "4"
      [] d = 5 -> "5" [] d = 6 -> "6" [] d = 7 -> "7" [] d = 8 -> "8" [] d = 9 -> "9"

RECURSIVE DecimalDigits(_)
DecimalDigits(n) ==
    IF n < 10 THEN <<DigitChar(n)>>
    ELSE DecimalDigits(n \div 10) \o <<DigitChar(n % 10)>>

\* '%d' % n
FormatD(n) == IF n < 0 THEN <<"-">> \o DecimalDigits(-n) ELSE DecimalDigits(n)

\* os.path.join(a, b)
PathJoin(a, b) ==
    IF Len(b) > 0 /\ b[1] = "/" THEN b
    ELSE IF a = <<>> \/ a[Len(a)] = "/" THEN a \o b
    ELSE a \o <<"/">> \o b

LevelFilenameNoMode(variant_name, level_id, mode) ==
    PathJoin(CACHE_ROOT, FormatS(variant_name) \o <<"_", "l", "e", "v", "e", "l", "_">>
                         \o FormatD(level_id))

\* cls.level_filename(level_id, mode) of a class with the given variant_name
LevelFilename(variant_name, level_id, mode) ==
    PathJoin(CACHE_ROOT, FormatS(variant_name) \o <<"_">> \o FormatS(mode)
                         \o <<"_", "l", "e", "v", "e", "l", "_">> \o FormatD(level_id))

\* the variant names of the classes, the modes and the level ids
VariantNames == { <<"a">>, <<"a", "_", "b">>, <<"b">>, NoneName }
Modes == { <<"b">>, <<"b", "_", "c">>, <<"c">> }
LevelIds == { 1, 12, -1 }

\* the arguments and the result of a level_filename call
NameCall(v, l, m) ==
    [variant_name |-> v, level_id |-> l, mode |-> m, path |-> LevelFilename(v, l, m)]

\* cls.level_filename(level_id, mode); the call before it is remembered
LevelFilenameCall ==
    \E v \in VariantNames, l \in LevelIds, m \in Modes :
        /\ ret' = [op |-> "level_filename", this |-> NameCall(v, l, m),
                   before |-> IF ret.op = "level_filename" THEN ret.this ELSE NoOp]
        /\ UNCHANGED <<grid, prev, lastOp, nops, codecVars, cacheVars>>

-----------------------------------------------------------------------------
(* LevelGeometryIndexed: the process cache                                 *)

\* two subclasses of LevelGeometryIndexed (two variants)
Classes == {"A", "B"}
\* (level_id, mode) pairs
Keys == {"k1", "k2"}
\* threads of one process calling open_level_cached
Threads == {"t1", "t2"}
NoThread == "none"
\* cache_key = None, the class attribute before any call
NoneKey == 0
\* the epoch token takes the values NoneKey..MaxEpoch
MaxEpoch == 2
\* at most this many save_level runs by the writer
MaxSaves == 2
\* at most this many open_level invocations per run
MaxLoads == 3

\* cached = {}
EmptyDict == [k \in Keys |-> NoGrid]

\* cls.cache_key: the class's own attribute, else the inherited one, which
\* stays None (no call is made on LevelGeometryIndexed itself)
VisibleKey(c) == IF ckey[c].own THEN ckey[c].key ELSE NoneKey
\* cls.cached: the class's own dict, else the inherited one
VisibleCached(c) == IF ccached[c].own THEN ccached[c].dict ELSE baseCached

\* (mutant) no mutual exclusion: the lock is taken whoever holds it
LockAny(l) == TRUE
\* with cls.cache_lock: the lock can be taken when no thread holds it
LockFree(l) == l = NoThread
\* (mutant) the mapping kept when the key changed
KeepDict(old) == old
\* cls.cached = {}: the dict the class gets when the key changed
ClearedDict(old) == EmptyDict
\* (mutant) the lookup never finds the entry
DictGetMiss(d, k) == NoGrid
\* cls.cached.get((level_id, mode), None)
DictGet(d, k) == d[k]
\* open(filename, 'rb') fails when the level file does not exist
FileExists(ver) == ver > 0

IdleCall == [cls |-> "A", key |-> "k1", ck |-> NoneKey, changed |-> FALSE,
             didLoad |-> FALSE, result |-> NoGrid]

\* a thread calls cls.open_level_cached(level_id, mode), cls in classes
Call(t, classes) ==
    \E c \in classes, k \in Keys :
        /\ pc[t] \in {"idle", "raised"}
        /\ pc' = [pc EXCEPT ![t] = "acquire"]
        /\ call' = [call EXCEPT ![t] = [IdleCall EXCEPT !.cls = c, !.key = k]]
        /\ UNCHANGED <<gridVars, codecVars, token, files, ckey, ccached, baseCached,
                       lock, nloads, hist>>

\* line 217: with cls.cache_lock
Acquire(t) ==
    /\ pc[t] = "acquire"
    /\ LockFree(lock)
    /\ lock' = t
    /\ pc' = [pc EXCEPT ![t] = "read_key"]
    /\ UNCHANGED <<gridVars, codecVars, token, files, ckey, ccached, baseCached,
                   call, nloads, hist>>

\* line 219: cache_key = MapUpdate.current_processed_cache_key()
ReadKey(t) ==
    /\ pc[t] = "read_key"
    /\ call' = [call EXCEPT ![t].ck = token]
    /\ pc' = [pc EXCEPT ![t] = "compare"]
    /\ UNCHANGED <<gridVars, codecVars, token, files, ckey, ccached, baseCached,
                   lock, nloads, hist>>

\* lines 220-221: if cls.cache_key != cache_key: cls.cache_key = cache_key
Compare(t) ==
    LET c == call[t].cls
    IN  /\ pc[t] = "compare"
        /\ IF VisibleKey(c) # call[t].ck
           THEN /\ ckey' = [ckey EXCEPT ![c] = [own |-> TRUE, key |-> call[t].ck]]
                /\ call' = [call EXCEPT ![t].changed = TRUE]
                /\ hist' = [hist EXCEPT !.adoptSeq[c] = nloads]
                /\ pc' = [pc EXCEPT ![t] = "clear"]
           ELSE /\ pc' = [pc EXCEPT ![t] = "lookup"]
                /\ UNCHANGED <<ckey, call, hist>>
        /\ UNCHANGED <<gridVars, codecVars, token, files, ccached, baseCached,
                       lock, nloads>>

\* line 222: cls.cached = {}
Clear(t) ==
    LET c == call[t].cls
    IN  /\ pc[t] = "clear"
        /\ ccached' = [ccached EXCEPT ![c] = [own |-> TRUE,
                                              dict |-> ClearedDict(VisibleCached(c))]]
        /\ pc' = [pc EXCEPT ![t] = "load"]
        /\ UNCHANGED <<gridVars, codecVars, token, files, ckey, baseCached, lock,
                       call, nloads, hist>>

\* (mutant) the lock stays with the thread that leaves the with block
StillHeld(t) == t
\* cache_lock after the with block is left, by a return or by an exception
Released(t) == NoThread

\* the with block is left by a return: the lock is released, the call is over
Leave(t) ==
    /\ lock' = Released(t)
    /\ pc' = [pc EXCEPT ![t] = "idle"]
    /\ call' = [call EXCEPT ![t] = IdleCall]

\* the with block is left by the exception of open_level: the lock is
\* released, the caller holds the exception of its call for (cls, key)
Raise(t) ==
    /\ lock' = Released(t)
    /\ pc' = [pc EXCEPT ![t] = "raised"]
    /\ call' = [call EXCEPT ![t] = [IdleCall EXCEPT !.cls = call[t].cls,
                                                    !.key = call[t].key]]

\* history, on a return while the token is still the one the call read: the
\* first grid returned for (cls, key) since the token last changed
NoteReturn(t) ==
    LET c == call[t].cls
        k == call[t].key
    IN  IF call[t].ck = token /\ hist.first[c][k] = NoGrid
        THEN [hist EXCEPT !.first[c][k] = call[t].result]
        ELSE hist

\* lines 224-226: result = cls.cached.get(...); return it unless None
Lookup(t) ==
    LET c == call[t].cls
        r == DictGet(VisibleCached(c), call[t].key)
    IN  /\ pc[t] = "lookup"
        /\ IF r # NoGrid
           THEN /\ call' = [call EXCEPT ![t].result = r]
                /\ pc' = [pc EXCEPT ![t] = "return"]
           ELSE /\ pc' = [pc EXCEPT ![t] = "load"]
                /\ UNCHANGED call
        /\ UNCHANGED <<gridVars, codecVars, token, files, ckey, ccached, baseCached,
                       lock, nloads, hist>>

\* line 228: result = cls.open_level(level_id, mode); a missing file raises,
\* and the exception leaves the with block (line 229 is not reached)
Load(t) ==
    LET c == call[t].cls
        k == call[t].key
        obj == [seq |-> nloads + 1, cls |-> c, key |-> k, ver |-> files[c][k],
                epoch |-> VisibleKey(c)]
    IN  /\ pc[t] = "load"
        /\ nloads < MaxLoads
        /\ nloads' = nloads + 1
        /\ IF FileExists(files[c][k])
           THEN /\ call' = [call EXCEPT ![t].result = obj, ![t].didLoad = TRUE]
                /\ pc' = [pc EXCEPT ![t] = "insert"]
                /\ hist' = [hist EXCEPT !.loads = Append(@, <<c, k, VisibleKey(c)>>)]
                /\ UNCHANGED lock
           ELSE /\ Raise(t)
                /\ UNCHANGED hist
        /\ UNCHANGED <<gridVars, codecVars, token, files, ckey, ccached, baseCached>>

\* line 229: cls.cached[(level_id, mode)] = result
Insert(t) ==
    LET c == call[t].cls
        k == call[t].key
        r == call[t].result
    IN  /\ pc[t] = "insert"
        /\ IF ccached[c].own
           THEN /\ ccached' = [ccached EXCEPT ![c].dict[k] = r]
                /\ UNCHANGED baseCached
           ELSE /\ baseCached' = [baseCached EXCEPT ![k] = r]
                /\ UNCHANGED ccached
        /\ pc' = [pc EXCEPT ![t] = "return"]
        /\ UNCHANGED <<gridVars, codecVars, token, files, ckey, lock, call, nloads,
                       hist>>

\* lines 226 and 230: return result, which leaves the with block
Return(t) ==
    /\ pc[t] = "return"
    /\ Leave(t)
    /\ hist' = NoteReturn(t)
    /\ UNCHANGED <<gridVars, codecVars, token, files, ckey, ccached, baseCached,
                   nloads>>

\* the map-update subsystem processes an update: the token advances
EpochChange ==
    /\ token < MaxEpoch
    /\ token' = token + 1
    /\ hist' = [hist EXCEPT !.first = [c \in Classes |-> EmptyDict]]
    /\ UNCHANGED <<gridVars, codecVars, files, ckey, ccached, baseCached, lock, pc,
                   call, nloads>>

\* the number of save_level runs so far
RECURSIVE SumVersions(_)
SumVersions(S) ==
    IF S = {} THEN 0
    ELSE LET x == CHOOSE x \in S : TRUE
         IN  files[x[1]][x[2]] + SumVersions(S \ {x})

\* a writer runs save_level(level_id, mode) on an instance of a class in
\* classes: the level file is (re)written
SaveLevel(classes) ==
    \E c \in classes, k \in Keys :
        /\ SumVersions(Classes \X Keys) < MaxSaves
        /\ files' = [files EXCEPT ![c][k] = @ + 1]
        /\ UNCHANGED <<gridVars, codecVars, token, ckey, ccached, baseCached, lock,
                       pc, call, nloads, hist>>

-----------------------------------------------------------------------------
(* Specifications                                                          *)

GridInit ==
    /\ grid \in { NewGrid(res) : res \in Resolutions }
    /\ prev = grid
    /\ lastOp = NoOp
    /\ nops = 0
    /\ ret = NoOp

\* no file exists yet; the instance was constructed with one of filenames
FileInit(filenames) ==
    /\ filename \in filenames
    /\ disk = [path \in Paths |-> NoFile]
    /\ saved = NoCall

CodecInit ==
    /\ stream = NoStream
    /\ loaded = NoOp
    /\ FileInit({NoFilename})

CacheInit(tokens) ==
    /\ token \in tokens
    /\ files = [c \in Classes |-> [k \in Keys |-> 0]]
    /\ ckey = [c \in Classes |-> [own |-> FALSE, key |-> NoneKey]]
    /\ ccached = [c \in Classes |-> [own |-> FALSE, dict |-> EmptyDict]]
    /\ baseCached = EmptyDict
    /\ lock = NoThread
    /\ pc = [t \in Threads |-> "idle"]
    /\ call = [t \in Threads |-> IdleCall]
    /\ nloads = 0
    /\ hist = [adoptSeq |-> [c \in Classes |-> 0], loads |-> <<>>,
               first |-> [c \in Classes |-> EmptyDict]]

\* one instance, no cache activity
Init == GridInit /\ CodecInit /\ CacheInit({NoneKey})
\* the token is None or a first key when the process starts
InitCache == GridInit /\ CodecInit /\ CacheInit({NoneKey, 1})

\* the operations on one instance
GridNext == FitBounds(FitRequests) \/ SetItem(WriteKeys) \/ GetItem
SpecGrid == Init /\ [][GridNext]_vars

\* geometries are written, and cells and slices read, on and off the cell
\* boundaries
RasterNext ==
    \/ FitBounds(RasterRequests) \/ SetItem(RasterKeys)
    \/ GetItemOf(RasterReadKeys) \/ GetCells(RasterGeometries) \/ GetBounds
SpecRaster == Init /\ [][RasterNext]_vars

\* the inputs of the save specification, at the lower end of the header's
\* int16 origin: a box whose cells begin at x = -32768, a box whose cells
\* begin at x = -32770, and a request beginning at x = -32769
SaveKeys == { GeomKey({Part(-131072, 0, -131064, 8)}),
              GeomKey({Part(-131080, 0, -131072, 8)}) }
SaveRequests == { <<-32769, 0, -32767, 1>> }
\* an instance constructed with or without a filename is changed, saved
\* and opened
InitSave ==
    /\ grid = NewGrid(CACHE_RESOLUTION) /\ prev = grid /\ lastOp = NoOp
    /\ nops = 0 /\ ret = NoOp
    /\ stream = NoStream /\ loaded = NoOp
    /\ FileInit({NoFilename, "p1"}) /\ CacheInit({NoneKey})
SaveNext == FitBounds(SaveRequests) \/ SetItem(SaveKeys) \/ Save \/ Open
SpecSave == InitSave /\ [][SaveNext]_vars

\* an instance is built, written to a stream and read back
CodecNext == FitBounds(CodecRequests) \/ SetItem(CodecKeys) \/ Write \/ Truncate \/ Read
SpecCodec == Init /\ [][CodecNext]_vars

\* the steps of a call, after its start
Steps(t) ==
    \/ Acquire(t) \/ ReadKey(t) \/ Compare(t) \/ Clear(t)
    \/ Lookup(t) \/ Load(t) \/ Insert(t) \/ Return(t)

\* the threads of a process calling open_level_cached of one class, while
\* the token and the files change
CacheNext ==
    \/ \E t \in Threads : Call(t, {"A"}) \/ Steps(t)
    \/ EpochChange
    \/ SaveLevel({"A"})
SpecCache == InitCache /\ [][CacheNext]_vars

\* the calls that have not yet reached their open_level
Pending == { t \in Threads : pc[t] \in {"acquire", "read_key", "compare", "clear",
                                         "lookup", "load"} }
\* a call is begun only while every call in progress can still load
CallWithinLoads(t) ==
    /\ nloads + Cardinality(Pending) < MaxLoads
    /\ Call(t, {"A"})
\* the threads under fair scheduling, the token being the one the process
\* started with: a thread inside open_level_cached takes its next step (every
\* load ends, by a grid or by an exception), and a thread that waits for a
\* lock that is free again and again gets it
ProgressNext ==
    \/ \E t \in Threads : CallWithinLoads(t) \/ Steps(t)
    \/ SaveLevel({"A"})
SpecProgress ==
    /\ InitCache /\ [][ProgressNext]_vars
    /\ \A t \in Threads : WF_vars(Steps(t)) /\ SF_vars(Acquire(t))

\* one thread calling open_level_cached of both classes
VariantsNext ==
    \/ Call("t1", Classes) \/ Steps("t1")
    \/ EpochChange
    \/ SaveLevel(Classes)
SpecVariants == InitCache /\ [][VariantsNext]_vars

\* a writer thread changes and saves its instance while a reader thread
\* opens the files
InitAtomic ==
    /\ grid = NewGrid(CACHE_RESOLUTION) /\ prev = grid /\ lastOp = NoOp
    /\ nops = 0 /\ ret = NoOp
    /\ stream = NoStream /\ loaded = NoOp
    /\ filename = NoFilename /\ disk = [path \in Paths |-> NoFile] /\ saved = NoSave
    /\ CacheInit({NoneKey})
AtomicNext ==
    \/ AtomicSetItem
    \/ SaveOpen \/ SaveWriteHeader \/ SaveWritePayload \/ SaveClose
    \/ LoadOpen \/ LoadRead
SpecAtomic == InitAtomic /\ [][AtomicNext]_vars

\* an instance is built by writes, then two writes are made on copies of it
\* in both orders, which ends the run
OrderNext == ret.op # "pair" /\ (SetItem(OrderKeys) \/ WritePair(OrderKeys))
SpecOrder == Init /\ [][OrderNext]_vars

\* the names of the level files of the classes
NamesNext == LevelFilenameCall
SpecNames == Init /\ [][NamesNext]_vars

Next ==
    \/ GridNext \/ RasterNext \/ SaveNext \/ CodecNext \/ CacheNext \/ VariantsNext
    \/ NamesNext \/ AtomicNext \/ ProgressNext \/ OrderNext
Spec == Init /\ [][Next]_vars

-----------------------------------------------------------------------------
(* Properties of one instance (SpecGrid) and of the codec (SpecCodec)      *)

\* the cells of g as a set of (cell x, cell y, value)
CellsAt(g) ==
    { <<g.x + c, g.y + r, g.data[r][c]>> : <<r, c>> \in (0..(g.h - 1)) \X (0..(g.w - 1)) }
\* the grid-cell coordinates g covers
Extent(g) == { <<g.x + c, g.y + r>> : <<r, c>> \in (0..(g.h - 1)) \X (0..(g.w - 1)) }
\* the smallest (minx, miny, maxx, maxy) containing a and b
BoxJoin(a, b) == <<Min(a[1], b[1]), Min(a[2], b[2]), Max(a[3], b[3]), Max(a[4], b[4])>>
\* the extent the last operation asked for, in cells
Requested ==
    IF lastOp.op = "fit_bounds" THEN lastOp.req
    ELSE GetGeometryBounds(prev, lastOp.key.parts)
\* the last operation was a fit_bounds or a geometry write that completed
Grew ==
    /\ lastOp.op \in {"fit_bounds", "setitem"}
    /\ lastOp.err = ""

\* C1: round trip.  The instance read by a class from the start of the
\* complete stream that an instance of the same class wrote has the
\* resolution, origin, width, height and every cell of the written one.
C1_RoundTrip ==
    (/\ loaded.op = "read" /\ loaded.from = 0
     /\ stream.written /\ ~stream.cut
     /\ loaded.variant = stream.variant)
    => /\ loaded.err = ""
       /\ loaded.grid.resolution = stream.src.resolution
       /\ loaded.grid.x = stream.src.x /\ loaded.grid.y = stream.src.y
       /\ loaded.grid.w = stream.src.w /\ loaded.grid.h = stream.src.h
       /\ \A r \in 0..(stream.src.h - 1), c \in 0..(stream.src.w - 1) :
             loaded.grid.data[r][c] = stream.src.data[r][c]
       /\ loaded.grid = stream.src
\* a grid with a negative origin and a written cell has been read back
C1_Witness ==
    /\ loaded.op = "read" /\ loaded.from = 0 /\ loaded.err = ""
    /\ stream.written /\ ~stream.cut /\ loaded.variant = stream.variant
    /\ stream.src.x < 0
    /\ \E cell \in CellsAt(loaded.grid) : cell[3] # 0

\* C2: growth preserves data.  After fit_bounds every cell that existed
\* before holds its value at the same grid-cell coordinate, and every cell
\* outside the old extent is zero.
C2_GrowthPreservesData ==
    lastOp.op = "fit_bounds"
    => /\ CellsAt(prev) \subseteq CellsAt(grid)
       /\ \A cell \in CellsAt(grid) :
             <<cell[1], cell[2]>> \notin Extent(prev) => cell[3] = 0
\* fit_bounds moved the origin of an instance holding a written cell
C2_Witness ==
    /\ lastOp.op = "fit_bounds" /\ lastOp.err = ""
    /\ \E cell \in CellsAt(prev) : cell[3] # 0
    /\ grid.x < prev.x /\ grid.y < prev.y
    /\ Cardinality(Extent(grid)) > Cardinality(Extent(prev))

\* C3 as stated: after every fit_bounds or geometry write the bounds are
\* exactly the join of the bounds before and the extent requested (and so
\* contain both).
C3_Original ==
    Grew => Bounds(grid) = BoxJoin(Bounds(prev), Requested)
\* C3 as amended: after every fit_bounds or geometry write that completes,
\* the bounds are the join of the bounds before and the extent requested
\* when the instance held at least one cell, and exactly the extent
\* requested when it held none.
C3_BoundsGrow ==
    Grew => Bounds(grid) = (IF DataSize(prev) # 0
                            THEN BoxJoin(Bounds(prev), Requested)
                            ELSE Requested)
\* an instance holding cells grew beyond both its old bounds and the request
C3_Witness ==
    /\ Grew /\ DataSize(prev) # 0
    /\ Bounds(grid) # Bounds(prev) /\ Bounds(grid) # Requested

\* C9 as stated: read of a stream whose first byte is not the class's
\* variant_id fails, returns no grid and leaves the stream as it was.
C9_Original ==
    (/\ loaded.op = "read" /\ loaded.from = 0
     /\ Len(stream.bytes) >= 1 /\ stream.bytes[1] # loaded.variant)
    => /\ loaded.err # "" /\ loaded.grid = NoGrid
       /\ stream.pos = loaded.from
\* C9, what read does instead: read of a stream whose first byte is not the class's
\* variant_id fails (ValueError when ten header bytes are there, struct.error
\* when fewer are), returns no grid and consumes no metadata or payload, but
\* leaves the stream behind the header bytes it has read.
C9_FormatMismatch ==
    (/\ loaded.op = "read" /\ loaded.from = 0
     /\ Len(stream.bytes) >= 1 /\ stream.bytes[1] # loaded.variant)
    => /\ loaded.grid = NoGrid
       /\ loaded.err = (IF Len(stream.bytes) >= 10 THEN "ValueError" ELSE "struct.error")
       /\ stream.pos = Min(10, Len(stream.bytes))
\* a complete stream with a payload, written by the other class, was read
C9_Witness ==
    /\ loaded.op = "read" /\ loaded.from = 0 /\ loaded.err = "ValueError"
    /\ stream.bytes[1] # loaded.variant
    /\ ~stream.cut /\ Len(stream.bytes) > 10

\* C10: with resolution 4, writing 1 for the rectangle (0,0)-(8,8) into the
\* empty instance gives origin (0,0), width 2, height 2 and four cells of 1;
\* then grid[0:4, 0:4] is [1] and grid[8:12, 8:12] is empty.
C10_Scenario ==
    (/\ prev = NewGrid(4)
     /\ lastOp.op = "setitem"
     /\ lastOp.key = GeomKey({Part(0, 0, 8, 8)}) /\ lastOp.value = 1)
    => /\ lastOp.err = ""
       /\ grid.x = 0 /\ grid.y = 0 /\ grid.w = 2 /\ grid.h = 2
       /\ \A r \in 0..1, c \in 0..1 : grid.data[r][c] = 1
       /\ (ret.op = "getitem" /\ ret.key = RectKey(0, 4, 0, 4))
            => ret.err = "" /\ ret.values = <<1>>
       /\ (ret.op = "getitem" /\ ret.key = RectKey(8, 12, 8, 12))
            => ret.err = "" /\ ret.values = <<>>
\* the rectangle was written and the rectangle outside it then read
C10_Witness ==
    /\ prev = NewGrid(4) /\ lastOp.op = "setitem"
    /\ lastOp.key = GeomKey({Part(0, 0, 8, 8)}) /\ lastOp.value = 1
    /\ Cardinality(Extent(grid)) = 4
    /\ ret.op = "getitem" /\ ret.key = RectKey(8, 12, 8, 12)

\* C20: binary layout.  write emits ten header bytes: variant_id,
\* resolution, origin x, origin y (int16, little-endian), width, height
\* (uint16, little-endian, width first), then no metadata, then two bytes
\* per cell, row after row from the row at origin y; read consumes exactly
\* these 10 + 2 * width * height bytes and gives an array of height rows
\* of width cells.
C20_BinaryLayout ==
    /\ (stream.written /\ ~stream.cut)
         => LET b == stream.bytes
                g == stream.src
            IN  /\ Len(b) = 10 + 2 * g.w * g.h
                /\ \A i \in 1..Len(b) : b[i] \in 0..255
                /\ b[1] = stream.variant /\ b[2] = g.resolution
                /\ (b[3] + 256 * b[4] - g.x) % 65536 = 0
                /\ (b[5] + 256 * b[6] - g.y) % 65536 = 0
                /\ b[7] + 256 * b[8] = g.w
                /\ b[9] + 256 * b[10] = g.h
                /\ \A r \in 0..(g.h - 1), c \in 0..(g.w - 1) :
                      b[10 + 2 * (r * g.w + c) + 1] + 256 * b[10 + 2 * (r * g.w + c) + 2]
                          = g.data[r][c]
    /\ (loaded.op = "read" /\ loaded.err = "")
         => /\ stream.pos = loaded.from + 10 + 2 * loaded.grid.w * loaded.grid.h
            /\ DOMAIN loaded.grid.data = 0..(loaded.grid.h - 1)
            /\ \A r \in 0..(loaded.grid.h - 1) :
                  DOMAIN loaded.grid.data[r] = 0..(loaded.grid.w - 1)
\* an instance with more rows than columns, a negative origin and a written
\* cell was written to the stream and read back
C20_Witness ==
    /\ stream.written /\ ~stream.cut
    /\ stream.src.h > stream.src.w /\ stream.src.w > 0 /\ stream.src.x < 0
    /\ \E cell \in CellsAt(stream.src) : cell[3] # 0
    /\ loaded.op = "read" /\ loaded.err = ""

-----------------------------------------------------------------------------
(* Properties of rasterisation and of reads (SpecRaster)                   *)

\* the key is a geometry of one part that is a single point
IsPoint(key) ==
    /\ key.kind = "geom" /\ Cardinality(key.parts) = 1
    /\ \A p \in key.parts : p.x0 = p.x1 /\ p.y0 = p.y1
\* the key is a rectangle with all four edges on multiples of res
IsAlignedBox(key, res) ==
    /\ key.kind = "geom" /\ Cardinality(key.parts) = 1
    /\ \A p \in key.parts :
          /\ p.x0 < p.x1 /\ p.y0 < p.y1
          /\ p.x0 % res = 0 /\ p.x1 % res = 0 /\ p.y0 % res = 0 /\ p.y1 % res = 0
\* get_geometry_cells was called for the geometry the last write wrote
CellsOfWritten ==
    /\ lastOp.op = "setitem" /\ lastOp.err = ""
    /\ ret.op = "cells" /\ ret.key = lastOp.key

\* C11 as stated: after writing a single point, get_geometry_cells for it
\* selects exactly one cell, the cell (floor(x/res), floor(y/res)).
C11_Original ==
    (CellsOfWritten /\ IsPoint(lastOp.key))
    => /\ ret.err = ""
       /\ \A p \in lastOp.key.parts :
             ret.cells = { <<FloorDiv(p.y0, grid.resolution) - grid.y,
                             FloorDiv(p.x0, grid.resolution) - grid.x>> }
\* C11, what the code does instead: the point selects that one cell when
\* neither coordinate is a multiple of the resolution, and no cell at all
\* when one of them is.
C11_PointCells ==
    (CellsOfWritten /\ IsPoint(lastOp.key))
    => /\ ret.err = ""
       /\ \A p \in lastOp.key.parts :
             ret.cells = IF p.x0 % grid.resolution # 0 /\ p.y0 % grid.resolution # 0
                         THEN { <<FloorDiv(p.y0, grid.resolution) - grid.y,
                                  FloorDiv(p.x0, grid.resolution) - grid.x>> }
                         ELSE {}
\* a point on a cell corner was written and its cells computed
C11_Witness ==
    /\ CellsOfWritten /\ IsPoint(lastOp.key)
    /\ \A p \in lastOp.key.parts : p.x0 % grid.resolution = 0
    /\ ret.cells = {}

\* C12: for a rectangle whose edges lie on multiples of the resolution,
\* get_geometry_cells marks exactly the cells of the array that lie inside
\* the rectangle, and none that only touches it.
C12_AlignedRectangle ==
    (ret.op = "cells" /\ IsAlignedBox(ret.key, grid.resolution))
    => /\ ret.err = ""
       /\ \A p \in ret.key.parts :
             ret.cells = { <<q[2] - grid.y, q[1] - grid.x>> : q \in
                             { q \in Extent(grid) :
                                 /\ p.x0 <= q[1] * grid.resolution
                                 /\ (q[1] + 1) * grid.resolution <= p.x1
                                 /\ p.y0 <= q[2] * grid.resolution
                                 /\ (q[2] + 1) * grid.resolution <= p.y1 } }
\* the array holds marked cells and an unmarked cell touching the rectangle
C12_Witness ==
    /\ ret.op = "cells" /\ IsAlignedBox(ret.key, grid.resolution)
    /\ ret.cells # {}
    /\ \E q \in Extent(grid) :
          /\ <<q[2] - grid.y, q[1] - grid.x>> \notin ret.cells
          /\ Intersects(ret.key.parts, q[1] * grid.resolution,
                        q[2] * grid.resolution, grid.resolution)

\* C13 as stated: get_geometry_cells, grid[geometry] and grid[geometry] =
\* value for an empty geometry complete without error, select no cell and
\* leave every cell unchanged.
C13_Original ==
    /\ (lastOp.op = "setitem" /\ lastOp.key = GeomKey(EmptyGeometry))
         => lastOp.err = "" /\ CellsAt(grid) = CellsAt(prev)
    /\ (ret.op = "getitem" /\ ret.key = GeomKey(EmptyGeometry))
         => ret.err = "" /\ ret.values = <<>>
    /\ (ret.op = "cells" /\ ret.key = GeomKey(EmptyGeometry))
         => ret.err = "" /\ ret.cells = {}
\* C13, what the code does instead: each of the three raises ValueError
\* and the instance is unchanged.
C13_EmptyGeometryRaises ==
    /\ (lastOp.op = "setitem" /\ lastOp.key = GeomKey(EmptyGeometry))
         => lastOp.err = "ValueError" /\ grid = prev
    /\ (ret.op \in {"getitem", "cells"} /\ ret.key = GeomKey(EmptyGeometry))
         => ret.err = "ValueError"
\* the empty geometry was written to an instance holding cells, then read
C13_Witness ==
    /\ lastOp.op = "setitem" /\ lastOp.key = GeomKey(EmptyGeometry)
    /\ DataSize(grid) # 0
    /\ ret.op = "getitem" /\ ret.key = GeomKey(EmptyGeometry)

\* C14: idempotence of write.  When grid[g] = v is performed twice in a row
\* the second write changes nothing: resolution, origin, dimensions and
\* cells are those after the first; and writing once more after any write
\* gives the instance that write gave.
C14_WriteIdempotent ==
    lastOp.op = "setitem"
    => /\ lastOp.again => grid = prev
       /\ SetItemF(grid, lastOp.key, lastOp.value).grid = grid
\* a geometry was written twice in a row into an instance that then holds
\* the value; the instance is larger than the empty one the run began with
C14_Witness ==
    /\ lastOp.op = "setitem" /\ lastOp.again /\ lastOp.err = ""
    /\ \E cell \in CellsAt(grid) : cell[3] = lastOp.value

\* the grid-cell range <<minx, miny, maxx, maxy>> a rectangle key asks for,
\* intersected with the extent of g
ReadRange(g, key) ==
    <<Max(FloorDiv(key.x0, g.resolution), g.x), Max(FloorDiv(key.y0, g.resolution), g.y),
      Min(CeilDiv(key.x1, g.resolution), g.x + g.w),
      Min(CeilDiv(key.y1, g.resolution), g.y + g.h)>>

\* C15: rectangle read.  grid[x0:x1, y0:y1] returns the values of the cells
\* with grid coordinates in [floor(x0/res), ceil(x1/res)) x [floor(y0/res),
\* ceil(y1/res)) that lie in the extent, rows by increasing y and columns
\* by increasing x within a row, and the empty sequence when the rectangle
\* lies left of, right of, below or above the extent.
C15_RectangleRead ==
    (ret.op = "getitem" /\ ret.key.kind = "rect")
    => LET b == ReadRange(grid, ret.key)
           ncols == Max(0, b[3] - b[1])
           nrows == Max(0, b[4] - b[2])
       IN  /\ ret.err = ""
           /\ Len(ret.values) = nrows * ncols
           /\ \A r \in b[2]..(b[4] - 1), c \in b[1]..(b[3] - 1) :
                 ret.values[(r - b[2]) * ncols + (c - b[1]) + 1]
                     = grid.data[r - grid.y][c - grid.x]
           /\ (\/ CeilDiv(ret.key.x1, grid.resolution) <= grid.x
               \/ FloorDiv(ret.key.x0, grid.resolution) >= grid.x + grid.w
               \/ CeilDiv(ret.key.y1, grid.resolution) <= grid.y
               \/ FloorDiv(ret.key.y0, grid.resolution) >= grid.y + grid.h)
                => ret.values = <<>>
\* a slice of an instance with a negative origin returned some but not all
\* of its cells, with different values among them
C15_Witness ==
    /\ ret.op = "getitem" /\ ret.key.kind = "rect"
    /\ grid.x < 0 /\ grid.y < 0
    /\ Len(ret.values) >= 2 /\ Len(ret.values) < DataSize(grid)
    /\ \E i, j \in 1..Len(ret.values) : ret.values[i] # ret.values[j]
    /\ FloorDiv(ret.key.x0, grid.resolution) > grid.x

\* the last operation was a fit_bounds whose request lies within the bounds
\* the instance had
Covered ==
    /\ lastOp.op = "fit_bounds"
    /\ lastOp.req[1] >= Bounds(prev)[1] /\ lastOp.req[2] >= Bounds(prev)[2]
    /\ lastOp.req[3] <= Bounds(prev)[3] /\ lastOp.req[4] <= Bounds(prev)[4]

\* C16 as stated: fit_bounds with a request the bounds already contain
\* leaves origin, width, height and all cells as they were.
C16_Original ==
    Covered => grid = prev
\* C16 as amended: fit_bounds with a request the bounds already contain
\* leaves the instance as it was when it holds at least one cell (or when
\* the call raises); an instance holding no cell takes the bounds of the
\* request instead, and still holds no cell.
C16_NoOpWhenCovered ==
    Covered => IF DataSize(prev) # 0 \/ lastOp.err # ""
               THEN grid = prev
               ELSE /\ Bounds(grid) = lastOp.req
                    /\ DataSize(grid) = 0
                    /\ grid.resolution = prev.resolution
\* a request inside, and smaller than, an instance holding a written cell
C16_Witness ==
    /\ Covered /\ lastOp.err = ""
    /\ lastOp.req # Bounds(prev)
    /\ \E cell \in CellsAt(prev) : cell[3] # 0

-----------------------------------------------------------------------------
(* Properties of save and open (SpecSave)                                  *)

\* C18: missing destination.  save raises ValueError('Missing filename.')
\* exactly when it is called without a path on an instance without a
\* filename, and then changes no file; otherwise the file at the explicit
\* path, else at the instance's filename, is written, and a file saved
\* without error opens as the instance.  open(path) gives an instance whose
\* filename is path, so save() of it writes to that path; save does not
\* change the filename.
C18_MissingDestination ==
    [][ /\ (saved' # saved /\ saved'.op = "save")
             => /\ (saved'.err = "ValueError")
                      <=> (saved'.arg = NoFilename /\ filename = NoFilename)
                /\ saved'.err = "ValueError" => disk' = disk
                /\ saved'.err # "ValueError"
                     => /\ saved'.target = (IF saved'.arg = NoFilename THEN filename
                                            ELSE saved'.arg)
                        /\ disk'[saved'.target].exists
                        /\ \A path \in Paths \ {saved'.target} : disk'[path] = disk[path]
                /\ saved'.err = ""
                     => OpenF(saved'.target, disk') = [err |-> "", grid |-> grid]
                /\ filename' = filename /\ grid' = grid
        /\ (saved' # saved /\ saved'.op = "open" /\ saved'.err = "")
             => filename' = saved'.arg /\ disk' = disk
      ]_vars
\* an instance obtained from open of a path no constructor was given, and
\* holding cells, was saved back to it by save()
C18_Witness ==
    /\ lastOp.op = "open" /\ lastOp.path = "p2" /\ DataSize(grid) # 0
    /\ saved.op = "save" /\ saved.arg = NoFilename /\ saved.err = ""
    /\ saved.target = "p2"
    /\ OpenF("p2", disk).grid = grid

\* the fields of g fit the header: uint16 width and height, int16 origin
Representable(g) ==
    /\ g.w \in 0..65535 /\ g.h \in 0..65535
    /\ g.x \in -32768..32767 /\ g.y \in -32768..32767

\* C19 as stated: in every state reached by fit_bounds and geometry writes
\* width and height are within 0..65535 and the origin within
\* -32768..32767; growth beyond is rejected.
C19_Original ==
    Representable(grid)
\* C19, what the code does instead: growth beyond the ranges is accepted,
\* and the save of such an instance raises struct.error after it has
\* created or emptied the file.
C19_OverflowAtSave ==
    (saved.op = "save" /\ saved.nops = nops /\ saved.target # NoFilename)
    => /\ (saved.err = "struct.error") <=> ~Representable(grid)
       /\ saved.err = "struct.error" => disk[saved.target] = FileOf(<<>>)
\* an instance with an origin below -32768 was saved
C19_Witness ==
    /\ saved.op = "save" /\ saved.nops = nops /\ saved.err = "struct.error"
    /\ grid.x < -32768 /\ DataSize(grid) # 0

-----------------------------------------------------------------------------
(* Properties of the process cache (SpecCache)                             *)

\* the threads inside the with block
Inside == { t \in Threads : pc[t] \notin {"idle", "raised", "acquire"} }
\* a successful load of (c, k) was made under the stored key e
LoadedUnder(c, k, e) == \E i \in 1..Len(hist.loads) : hist.loads[i] = <<c, k, e>>

\* C4: epoch invalidation.  A call that reads a token different from the
\* stored cache_key discards the whole mapping before it loads, and returns
\* a grid it has loaded itself; no call returns a grid that was loaded
\* before its class last adopted a key, so the first call for any other
\* key that was cached before loads again.
C4_EpochInvalidation ==
    \A t \in Threads :
        /\ (pc[t] = "load" /\ call[t].changed)
             => VisibleCached(call[t].cls) = EmptyDict
        /\ (pc[t] = "insert" /\ call[t].changed)
             => /\ VisibleCached(call[t].cls) = EmptyDict
                /\ call[t].result.seq = nloads
        /\ pc[t] = "return"
             => /\ call[t].result.seq > hist.adoptSeq[call[t].cls]
                /\ call[t].changed => call[t].didLoad
                /\ call[t].didLoad => call[t].result.seq = nloads
\* a call that found the token changed returns a fresh load of a key that
\* had been loaded under the previous key
C4_Witness ==
    \E t \in Threads :
        /\ pc[t] = "return" /\ call[t].changed /\ call[t].didLoad
        /\ \E e \in NoneKey..MaxEpoch :
              e # call[t].ck /\ LoadedUnder(call[t].cls, call[t].key, e)

\* C5: at most one disk load per (level_id, mode, epoch).  With a token
\* that only advances, no two successful open_level invocations are made
\* for the same class, (level_id, mode) and stored epoch.
C5_AtMostOneLoad ==
    \A i, j \in 1..Len(hist.loads) : i # j => hist.loads[i] # hist.loads[j]
\* one thread returns a cached grid while the other waits for the lock with
\* the same key, so two calls under one epoch shared one load
C5_Witness ==
    \E t, u \in Threads :
        /\ t # u
        /\ pc[t] = "return" /\ ~call[t].didLoad
        /\ pc[u] = "acquire" /\ call[u].key = call[t].key /\ call[u].cls = call[t].cls
        /\ LoadedUnder(call[t].cls, call[t].key, call[t].ck)

\* C6 as stated: in every reachable state every entry of the mapping was
\* loaded after, and under, the current stored cache_key; and every grid a
\* call returns was loaded under the stored cache_key of that moment.
C6_Original ==
    /\ \A c \in Classes, k \in Keys :
          VisibleCached(c)[k] # NoGrid
          => /\ VisibleCached(c)[k].seq > hist.adoptSeq[c]
             /\ VisibleCached(c)[k].epoch = VisibleKey(c)
    /\ \A t \in Threads :
          pc[t] = "return" => call[t].result.epoch = VisibleKey(call[t].cls)
\* C6 as amended: in every state in which no call is between the
\* assignment of cache_key (line 221) and that of cached (line 222), every
\* entry of the mapping was loaded after, and under, the current stored
\* cache_key; and every grid a call returns was loaded under the stored
\* cache_key of that moment.
C6_NoEpochMixing ==
    /\ \A c \in Classes :
          (\A t \in Threads : ~(pc[t] = "clear" /\ call[t].cls = c))
          => \A k \in Keys :
                VisibleCached(c)[k] # NoGrid
                => /\ VisibleCached(c)[k].seq > hist.adoptSeq[c]
                   /\ VisibleCached(c)[k].epoch = VisibleKey(c)
                   /\ VisibleCached(c)[k].key = k
    /\ \A t \in Threads :
          pc[t] = "return" => call[t].result.epoch = VisibleKey(call[t].cls)
\* during a transition: one call has adopted the new key and reloaded a key
\* that was cached under the old one, while the other call waits
C6_Witness ==
    \E t, u \in Threads :
        /\ t # u /\ pc[u] = "acquire"
        /\ pc[t] = "return" /\ call[t].changed
        /\ \E e \in NoneKey..MaxEpoch :
              e # call[t].ck /\ LoadedUnder(call[t].cls, call[u].key, e)

\* C7: the stored cache_key of a class never goes back to an earlier token;
\* it changes only in a step of the thread holding the lock, and that thread
\* keeps the lock until it has replaced the mapping by an empty one.
C7_EpochMonotone ==
    [][ /\ \A c \in Classes :
              /\ VisibleKey(c)' >= VisibleKey(c)
              /\ VisibleKey(c)' # VisibleKey(c)
                   => \E t \in Threads :
                         /\ lock = t /\ lock' = t /\ call[t].cls = c
                         /\ pc[t] = "compare" /\ pc'[t] = "clear"
        /\ \A t \in Threads :
              pc[t] = "clear"
              => /\ lock = t /\ lock' = t
                 /\ pc'[t] \in {"clear", "load"}
                 /\ pc'[t] = "load"
                      => /\ ccached'[call[t].cls].own
                         /\ VisibleCached(call[t].cls)' = EmptyDict
      ]_vars
\* the class has adopted a second key after loading under a first
C7_Witness ==
    /\ VisibleKey("A") = MaxEpoch
    /\ \E k \in Keys, e \in 1..(MaxEpoch - 1) : LoadedUnder("A", k, e)
    /\ \E t \in Threads : pc[t] = "load" /\ call[t].changed

\* C8: while the token is unchanged, every call for (level_id, mode) after
\* the first one that returned gets the grid object the first one returned
\* and performs no load, also when the file has been rewritten since.
C8_SameGridWithinEpoch ==
    \A t \in Threads :
        (/\ pc[t] = "return" /\ call[t].ck = token
         /\ hist.first[call[t].cls][call[t].key] # NoGrid)
        => /\ call[t].result = hist.first[call[t].cls][call[t].key]
           /\ ~call[t].didLoad
\* a later call returns the first grid although the file has a newer version
C8_Witness ==
    \E t \in Threads :
        /\ pc[t] = "return" /\ call[t].ck = token
        /\ hist.first[call[t].cls][call[t].key] # NoGrid
        /\ call[t].result = hist.first[call[t].cls][call[t].key]
        /\ files[call[t].cls][call[t].key] > call[t].result.ver

-----------------------------------------------------------------------------
(* Properties of the level file names (SpecNames)                          *)

Contains(s, ch) == \E i \in 1..Len(s) : s[i] = ch

SameTriple(a, b) ==
    /\ a.variant_name = b.variant_name
    /\ a.level_id = b.level_id
    /\ a.mode = b.mode

\* the path lies in the cache root directory
UnderRoot(path) ==
    /\ Len(path) > Len(CACHE_ROOT) + 1
    /\ SubSeq(path, 1, Len(CACHE_ROOT) + 1) = CACHE_ROOT \o <<"/">>
    /\ ~Contains(SubSeq(path, Len(CACHE_ROOT) + 2, Len(path)), "/")

-----------------------------------------------------------------------------
(* Properties of reads and writes of one instance (SpecRaster)             *)

\* C22: the reads grid[rectangle], grid[geometry], get_geometry_cells and
\* bounds never change the origin, the dimensions, the resolution or a cell
\* value of the grid, even for a geometry outside its extent.
C22_ReadsLeaveGrid ==
    [][ (nops' = nops /\ ret'.op \in {"getitem", "cells", "bounds"}) =>
            /\ grid' = grid
            /\ Bounds(grid') = Bounds(grid)
            /\ CellsAt(grid') = CellsAt(grid) ]_vars

\* a geometry whose cell bounds begin left of and below a grid that holds
\* cells has been read, and the grid is still the one the last write left
C22_Witness ==
    /\ ret.op = "getitem" /\ ret.key.kind = "geom" /\ ret.err = ""
    /\ ret.key.parts # EmptyGeometry
    /\ DataSize(grid) > 0
    /\ LET b == GetGeometryBounds(grid, ret.key.parts)
       IN  b[1] < grid.x /\ b[2] < grid.y
    /\ lastOp.op = "setitem" /\ lastOp.err = ""
    /\ grid = SetItemF(prev, lastOp.key, lastOp.value).grid

-----------------------------------------------------------------------------
(* Failure, exclusion and progress of open_level_cached (SpecCache)        *)

\* C23: when open_level raises inside open_level_cached the error reaches
\* the caller after exactly one load attempt, the lock is released, no entry
\* for (level_id, mode) is inserted, and a later call for the same key that
\* finds no entry attempts the load again.
C23_FailedLoad ==
    [][ \A t \in Threads :
          LET c == call[t].cls
              k == call[t].key
          IN  /\ ( /\ pc[t] = "load" /\ pc'[t] # "load"
                   /\ ~FileExists(files[c][k]) )
                 => /\ pc'[t] = "raised"
                    /\ call'[t].cls = c /\ call'[t].key = k
                    /\ nloads' = nloads + 1
                    /\ lock = t /\ lock' = NoThread
                    /\ ccached' = ccached /\ baseCached' = baseCached
                    /\ VisibleCached(c)[k] = NoGrid
              /\ ( /\ pc[t] = "lookup" /\ pc'[t] # "lookup"
                   /\ VisibleCached(c)[k] = NoGrid )
                 => pc'[t] = "load" ]_vars

\* a call for a key has raised, and a later call for the same key by the
\* other thread has found no entry and is about to load again
C23_Witness ==
    \E t, u \in Threads :
        /\ t # u
        /\ pc[t] = "raised"
        /\ pc[u] = "load" /\ lock = u /\ ~call[u].changed
        /\ call[u].cls = call[t].cls /\ call[u].key = call[t].key
        /\ VisibleCached(call[u].cls)[call[u].key] = NoGrid
        /\ nloads > Len(hist.loads)

\* C25: at most one thread is between acquiring and releasing cache_lock;
\* the token read, the comparison, the clearing, the lookup, the load and the
\* insertion of one call happen while that thread holds the lock, and every
\* other thread is outside a call or waiting for the lock.
C25_MutualExclusion ==
    /\ Cardinality(Inside) <= 1
    /\ \A t \in Threads :
          /\ t \in Inside <=> lock = t
          /\ pc[t] \in {"read_key", "compare", "clear", "lookup", "load", "insert",
                        "return"}
               => \A u \in Threads \ {t} : pc[u] \in {"idle", "raised", "acquire"}
    /\ lock = NoThread <=> Inside = {}

\* a thread loads inside the critical section while the other thread, whose
\* call has begun, waits for the lock
C25_Witness ==
    \E t, u \in Threads :
        /\ t # u
        /\ pc[t] = "load" /\ lock = t
        /\ pc[u] = "acquire"

-----------------------------------------------------------------------------
(* Properties of a save running beside a load (SpecAtomic)                 *)

\* C24: save is not atomic with respect to load.  A load of a path that
\* does not overlap any save of it returns exactly the grid last saved
\* there; only a load that overlaps a save observes a file holding part of
\* the encoded grid, and such a load is reachable (C24_Witness).
C24_SaveNotAtomic ==
    loaded.op = "open" =>
        /\ (~loaded.overlap /\ loaded.expect # NoGrid)
             => (loaded.err = "" /\ loaded.grid = loaded.expect)
        /\ loaded.partial => loaded.overlap

\* the reader has observed a file holding only part of the encoding that a
\* save was writing, and its load has failed
C24_Witness ==
    /\ loaded.op = "open" /\ loaded.partial /\ loaded.overlap
    /\ loaded.err \in {"struct.error", "ValueError"}
    /\ loaded.expect # NoGrid

\* the threads inside a call, from its start to its return or exception
Callers == { t \in Threads : pc[t] \notin {"idle", "raised"} }

\* C26: every path through open_level_cached releases cache_lock: under fair
\* scheduling and terminating loads every thread that calls it eventually
\* returns or raises, and in no reachable state are all callers blocked on
\* the lock.
C26_LockReleaseProgress ==
    /\ [](\A t \in Threads : pc[t] \in {"idle", "raised"} => lock # t)
    /\ []((Callers # {} /\ \A t \in Callers : pc[t] = "acquire") => lock = NoThread)
    /\ \A t \in Threads : (pc[t] = "acquire") ~> (pc[t] \in {"idle", "raised"})

\* a call has ended by an exception and released the lock, and the other
\* thread, which was waiting, can take it
C26_Witness ==
    \E t, u \in Threads :
        /\ t # u
        /\ pc[t] = "raised" /\ pc[u] = "acquire"
        /\ lock = NoThread
        /\ nloads > Len(hist.loads)

\* the value the instance g holds at the grid coordinate (x, y), zero where
\* it has no cell
ValueAt(g, x, y) ==
    IF <<x, y>> \in Extent(g) THEN g.data[y - g.y][x - g.x] ELSE 0

\* C27: after grid[g] = v the bounds contain the cell-space envelope of g,
\* every cell that get_geometry_cells(g) selects holds v, every other cell
\* holds the value that was at its grid coordinate before the write (zero if
\* the cell is new), and the resolution is unchanged.
C27_WritePostcondition ==
    (lastOp.op = "setitem" /\ lastOp.err = "") =>
        LET parts == lastOp.key.parts
            b == GetGeometryBounds(prev, parts)
            selected == GetGeometryCellsF(grid, parts).cells
        IN  /\ grid.resolution = prev.resolution
            /\ Bounds(grid)[1] <= b[1] /\ Bounds(grid)[2] <= b[2]
            /\ Bounds(grid)[3] >= b[3] /\ Bounds(grid)[4] >= b[4]
            /\ \A r \in 0..(grid.h - 1), c \in 0..(grid.w - 1) :
                  grid.data[r][c] =
                      IF <<r, c>> \in selected THEN lastOp.value
                      ELSE ValueAt(prev, grid.x + c, grid.y + r)

\* a write with another value beside the cells of an earlier write: a
\* selected cell, an old cell that keeps its value and a new cell of zero
C27_Witness ==
    /\ lastOp.op = "setitem" /\ lastOp.err = "" /\ DataSize(prev) > 0
    /\ LET selected == GetGeometryCellsF(grid, lastOp.key.parts).cells
       IN  /\ selected # {}
           /\ \E r \in 0..(grid.h - 1), c \in 0..(grid.w - 1) :
                 /\ <<r, c>> \notin selected
                 /\ <<grid.x + c, grid.y + r>> \in Extent(prev)
                 /\ grid.data[r][c] \notin {0, lastOp.value}
           /\ \E r \in 0..(grid.h - 1), c \in 0..(grid.w - 1) :
                 /\ <<r, c>> \notin selected
                 /\ <<grid.x + c, grid.y + r>> \notin Extent(prev)
                 /\ grid.data[r][c] = 0

\* C28: for every grid extent and every geometry envelope, inside, partly
\* overlapping or outside, get_geometry_cells marks only rows in [0, height)
\* and columns in [0, width), marks no cell outside the cell-space envelope
\* of the geometry, and marks nothing when the envelope does not overlap the
\* extent.
C28_ClampedRasterization ==
    (ret.op = "cells" /\ ret.err = "") =>
        LET b == GetGeometryBounds(grid, ret.key.parts)
            e == Bounds(grid)
        IN  /\ \A q \in ret.cells :
                  /\ 0 <= q[1] /\ q[1] < grid.h
                  /\ 0 <= q[2] /\ q[2] < grid.w
                  /\ b[1] <= grid.x + q[2] /\ grid.x + q[2] < b[3]
                  /\ b[2] <= grid.y + q[1] /\ grid.y + q[1] < b[4]
            /\ (b[3] <= e[1] \/ b[1] >= e[3] \/ b[4] <= e[2] \/ b[2] >= e[4])
                 => ret.cells = {}

\* the cells of a geometry whose envelope reaches beyond the extent of the
\* grid on the right have been computed, and some cell is marked
C28_Witness ==
    /\ ret.op = "cells" /\ ret.err = "" /\ ret.cells # {}
    /\ LET b == GetGeometryBounds(grid, ret.key.parts)
       IN  b[3] > Bounds(grid)[3] /\ b[1] < Bounds(grid)[3]

-----------------------------------------------------------------------------
(* Properties of two writes in either order (SpecOrder)                    *)

\* the grid coordinates of the cells a write of the geometry selects
SelectedCoords(g, parts) ==
    LET b == GetGeometryBounds(g, parts)
    IN  { q \in (b[1]..(b[3] - 1)) \X (b[2]..(b[4] - 1)) :
            Intersects(parts, q[1] * g.resolution, q[2] * g.resolution, g.resolution) }

\* the two geometries of the pair select no cell in common
DisjointPair ==
    /\ ret.op = "pair" /\ ret.err = ""
    /\ SelectedCoords(grid, ret.k1.parts) \cap SelectedCoords(grid, ret.k2.parts) = {}

\* the cell-space envelope of the geometry has cells: nonzero width and height
HasCells(g, parts) ==
    LET b == GetGeometryBounds(g, parts)
    IN  b[1] < b[3] /\ b[2] < b[4]

\* C29 as stated: two writes of geometries with disjoint selected cells give
\* the same origin, dimensions and cell values in either order.
C29_Original == DisjointPair => ret.ab = ret.ba

\* C29: two writes of geometries with disjoint selected cells give the same
\* value at every grid coordinate in either order, and the same origin and
\* dimensions when the grid holds a cell before them or the envelopes of both
\* geometries have nonzero width and height in cell space.
C29_OrderIndependence ==
    DisjointPair =>
        /\ \A q \in Extent(ret.ab) \cup Extent(ret.ba) :
              ValueAt(ret.ab, q[1], q[2]) = ValueAt(ret.ba, q[1], q[2])
        /\ ( \/ DataSize(grid) > 0
             \/ HasCells(grid, ret.k1.parts) /\ HasCells(grid, ret.k2.parts) )
           => ret.ab = ret.ba

\* two boxes with different values written beside each other on a grid that
\* held cells: both orders give the same grid, which holds both values
C29_Witness ==
    /\ DisjointPair /\ DataSize(grid) > 0
    /\ ret.k1 # ret.k2 /\ ret.v1 # ret.v2
    /\ HasCells(grid, ret.k1.parts) /\ HasCells(grid, ret.k2.parts)
    /\ ret.ab = ret.ba
    /\ \E q \in Extent(ret.ab) : ValueAt(ret.ab, q[1], q[2]) = ret.v1
    /\ \E q \in Extent(ret.ab) : ValueAt(ret.ab, q[1], q[2]) = ret.v2
    /\ Extent(grid) # Extent(ret.ab)

-----------------------------------------------------------------------------
(* Properties of the cache across the variants (SpecVariants)              *)

\* C30: a call of open_level_cached on one subclass never returns a grid
\* that was loaded by another subclass for the same (level_id, mode),
\* whatever the token is, the initial None included.
C30_Original ==
    \A t \in Threads :
        pc[t] = "return" => call[t].result.cls = call[t].cls

\* a grid loaded by another subclass is returned only from the dict of
\* LevelGeometryIndexed, which a subclass uses as long as every token it has
\* read was None
C30_SharedOnlyUnderNone ==
    \A t \in Threads :
        (pc[t] = "return" /\ call[t].result.cls # call[t].cls)
            => /\ ~ccached[call[t].cls].own
               /\ call[t].ck = NoneKey
               /\ call[t].result.epoch = NoneKey

\* a call on one subclass is about to return the grid the other subclass
\* loaded for the same key
C30_Witness ==
    \E t \in Threads :
        /\ pc[t] = "return" /\ ~call[t].didLoad
        /\ call[t].result.cls # call[t].cls
        /\ call[t].result.key = call[t].key

=============================================================================
